---- MODULE Spec2Model ----
(***************************************************************************)
(* Model of the fake-news-detector analysis pipeline:                      *)
(*   clean_data.py   clean_text, articles_to_df                            *)
(*   llm_helper.py   detect_clickbait_in_title,                            *)
(*                   analyze_article_with_local_llm                        *)
(*   api_fetch.py    fetch_articles                                        *)
(*   main.py         the terminal front end                                *)
(*   streamlit_app.py the web front end                                    *)
(*                                                                         *)
(* A Python str is a sequence of characters; a character is a one-element  *)
(* token (a TLA+ string).  Characters outside ASCII are written by their   *)
(* code point, e.g. "U+0131".                                              *)
(***************************************************************************)
EXTENDS Integers, Sequences, FiniteSets, TLC

VARIABLES
    text,          \* the str handed to the text functions
    cleaned,       \* successive results of clean_text, first pass first
    verdict,       \* detect_clickbait_in_title(text), once computed
    verdictUpper,  \* detect_clickbait_in_title(text.upper()), once computed
    frontend,      \* which program runs: "terminal" (main.py), "web" (streamlit_app.py) or "demo" (demo.py)
    API_KEY,       \* api_fetch.API_KEY: os.getenv("NEWS_API_KEY"), None when unset
    pc,            \* position of the running script
    topic,         \* local variable topic of the running script
    requests,      \* number of requests.get calls made so far
    data,          \* fetch_articles of this run: whether "articles" is in data
    articles,      \* local variable articles (the provider's list)
    df,            \* local variable df (articles_to_df result)
    df_filtered,   \* local variable df_filtered (web: of the last run, empty if unassigned)
    results,       \* local variable results (list of dicts)
    model_inputs,  \* the texts handed to the sentiment model by this run, in call order
    choice,        \* main: the accepted article number
    csv_file,      \* content of the exported CSV file
    sqlite_db,     \* content of the articles table of the SQLite database
    error,         \* the exception that ended the script (run), None if none
    session_state, \* st.session_state of the web front end
    keyword,       \* highlight_keyword: its argument keyword
    scan_i,        \* highlight_keyword: its local variable i
    highlighted_text \* highlight_keyword: its local variable highlighted_text

textVars == <<text, cleaned, verdict, verdictUpper>>
appVars == <<frontend, API_KEY, pc, topic, requests, data, articles, df,
             df_filtered, results, model_inputs, choice, csv_file, sqlite_db,
             error, session_state>>
hlVars == <<keyword, scan_i, highlighted_text>>
vars == <<text, cleaned, verdict, verdictUpper, frontend, API_KEY, pc, topic,
          requests, data, articles, df, df_filtered, results, model_inputs,
          choice, csv_file, sqlite_db, error, session_state,
          keyword, scan_i, highlighted_text>>

\* Python's None where the other values are names (exception names, the key)
None == "None"

\* Python's None where the other values are structured: NoValue is None,
\* Some(v) the value v
NoValue == <<>>
Some(v) == <<v>>

-----------------------------------------------------------------------------
(* Python str primitives *)

LowerLetters == <<"a","b","c","d","e","f","g","h","i","j","k","l","m",
                  "n","o","p","q","r","s","t","u","v","w","x","y","z">>
UpperLetters == <<"A","B","C","D","E","F","G","H","I","J","K","L","M",
                  "N","O","P","Q","R","S","T","U","V","W","X","Y","Z">>

\* U+017F LATIN SMALL LETTER LONG S, U+0131 LATIN SMALL LETTER DOTLESS I:
\* both are lowercase letters whose uppercase is an ASCII letter.
LongS == "U+017F"
DotlessI == "U+0131"

LowerSet == {LowerLetters[i] : i \in 1..26}
UpperSet == {UpperLetters[i] : i \in 1..26}
IsLowerAscii(c) == c \in LowerSet
IsUpperAscii(c) == c \in UpperSet
LetterIndex(letters, c) == CHOOSE i \in 1..26 : letters[i] = c

\* str.lower() of one character
LowerChar(c) ==
    IF IsUpperAscii(c) THEN LowerLetters[LetterIndex(UpperLetters, c)] ELSE c

\* str.upper() of one character
UpperChar(c) ==
    IF IsLowerAscii(c) THEN UpperLetters[LetterIndex(LowerLetters, c)]
    ELSE IF c = LongS THEN "S"
    ELSE IF c = DotlessI THEN "I"
    ELSE c

\* str.lower()
RECURSIVE lower(_)
lower(s) == IF s = <<>> THEN <<>> ELSE <<LowerChar(Head(s))>> \o lower(Tail(s))

\* str.upper()
RECURSIVE upper(_)
upper(s) == IF s = <<>> THEN <<>> ELSE <<UpperChar(Head(s))>> \o upper(Tail(s))

\* str.capitalize(): first character upper-cased, the rest lower-cased
capitalize(s) ==
    IF s = <<>> THEN <<>> ELSE <<UpperChar(Head(s))>> \o lower(Tail(s))

\* the regular expression class \s
IsSpace(c) == c \in {" ", "\t", "\n"}

Digits == {"0","1","2","3","4","5","6","7","8","9"}

\* the regular expression class \w (str patterns: alphanumerics and underscore)
IsWord(c) ==
    \/ IsLowerAscii(c)
    \/ IsUpperAscii(c)
    \/ c \in Digits
    \/ c = "_"
    \/ c \in {LongS, DotlessI}

\* Python's `needle in haystack` for str, scanning start positions left to right
RECURSIVE FindFrom(_, _, _)
FindFrom(haystack, needle, i) ==
    IF i + Len(needle) - 1 > Len(haystack) THEN 0
    ELSE IF SubSeq(haystack, i, i + Len(needle) - 1) = needle THEN i
    ELSE FindFrom(haystack, needle, i + 1)

In(needle, haystack) == FindFrom(haystack, needle, 1) # 0

-----------------------------------------------------------------------------
(* clean_data.clean_text *)

http == <<"h","t","t","p">>

\* first index >= i holding a \s character, Len(s)+1 when there is none
RECURSIVE EndOfNonSpace(_, _)
EndOfNonSpace(s, i) ==
    IF i > Len(s) \/ IsSpace(s[i]) THEN i ELSE EndOfNonSpace(s, i + 1)

\* first index >= i holding a non-\s character, Len(s)+1 when there is none
RECURSIVE EndOfSpace(_, _)
EndOfSpace(s, i) ==
    IF i > Len(s) \/ ~IsSpace(s[i]) THEN i ELSE EndOfSpace(s, i + 1)

\* the pattern http\S+ matches at position i
MatchUrlAt(s, i) ==
    /\ i + 4 <= Len(s)
    /\ SubSeq(s, i, i + 3) = http
    /\ ~IsSpace(s[i + 4])

\* re.sub(r"http\S+", "", s), from position i on
RECURSIVE SubUrlFrom(_, _)
SubUrlFrom(s, i) ==
    IF i > Len(s) THEN <<>>
    ELSE IF MatchUrlAt(s, i) THEN SubUrlFrom(s, EndOfNonSpace(s, i))
    ELSE <<s[i]>> \o SubUrlFrom(s, i + 1)

sub_url(s) == SubUrlFrom(s, 1)

\* re.sub(r"[^\w\s]", "", s), from position i on
RECURSIVE SubPunctFrom(_, _)
SubPunctFrom(s, i) ==
    IF i > Len(s) THEN <<>>
    ELSE IF ~IsWord(s[i]) /\ ~IsSpace(s[i]) THEN SubPunctFrom(s, i + 1)
    ELSE <<s[i]>> \o SubPunctFrom(s, i + 1)

sub_punct(s) == SubPunctFrom(s, 1)

\* re.sub(r"\s+", " ", s), from position i on
RECURSIVE SubSpaceFrom(_, _)
SubSpaceFrom(s, i) ==
    IF i > Len(s) THEN <<>>
    ELSE IF IsSpace(s[i]) THEN <<" ">> \o SubSpaceFrom(s, EndOfSpace(s, i))
    ELSE <<s[i]>> \o SubSpaceFrom(s, i + 1)

sub_space(s) == SubSpaceFrom(s, 1)

\* clean_text with the first two substitutions in the opposite order
clean_text_punct_first(s) == lower(sub_space(sub_url(sub_punct(s))))

clean_text(s) == lower(sub_space(sub_punct(sub_url(s))))

-----------------------------------------------------------------------------
(* llm_helper.CLICKBAIT_WORDS and detect_clickbait_in_title *)

CLICKBAIT_WORDS == <<
    <<"s","h","o","c","k","i","n","g">>,
    <<"u","n","b","e","l","i","e","v","a","b","l","e">>,
    <<"y","o","u"," ","w","o","n","'","t"," ","b","e","l","i","e","v","e">>,
    <<"s","e","c","r","e","t">>,
    <<"e","x","p","o","s","e","d">>,
    <<"s","u","r","p","r","i","s","i","n","g">>,
    <<"t","h","i","s"," ","w","i","l","l"," ","c","h","a","n","g","e">>,
    <<"t","h","e"," ","t","r","u","t","h"," ","a","b","o","u","t">>,
    <<"m","i","r","a","c","l","e">>,
    <<"g","u","a","r","a","n","t","e","e","d">>,
    <<"i","n","s","t","a","n","t","l","y">>,
    <<"c","l","i","c","k"," ","h","e","r","e">> >>

\* the two return values of detect_clickbait_in_title
Clickbait == <<"C","l","i","c","k","b","a","i","t">>
NotClickbait == <<"N","o","t"," ","C","l","i","c","k","b","a","i","t">>

\* found_words = [word for word in CLICKBAIT_WORDS if word in title_lower]
FoundWords(title_lower) ==
    SelectSeq(CLICKBAIT_WORDS, LAMBDA word : In(word, title_lower))

\* detect_clickbait_in_title without the lowercasing of the title
detect_clickbait_no_lower(title) ==
    IF FoundWords(title) # <<>> THEN Clickbait ELSE NotClickbait

detect_clickbait_in_title(title) ==
    IF FoundWords(lower(title)) # <<>> THEN Clickbait ELSE NotClickbait

-----------------------------------------------------------------------------
(* Values of the front-end variables while only the text functions run, and *)
(* of the text variables while a front end runs.                            *)

EmptySession ==
    [selected_article_idx |-> NoValue, df_results |-> NoValue,
     df_filtered |-> NoValue, topic |-> <<>>]

AppIdle ==
    /\ frontend = None
    /\ API_KEY = None
    /\ pc = "idle"
    /\ topic = <<>>
    /\ requests = 0
    /\ data = NoValue
    /\ articles = <<>>
    /\ df = <<>>
    /\ df_filtered = <<>>
    /\ results = <<>>
    /\ model_inputs = <<>>
    /\ choice = 0
    /\ csv_file = NoValue
    /\ sqlite_db = NoValue
    /\ error = None
    /\ session_state = EmptySession

HighlightIdle ==
    /\ keyword = <<>>
    /\ scan_i = 0
    /\ highlighted_text = <<>>

TextIdle ==
    /\ text = <<>>
    /\ cleaned = <<>>
    /\ verdict = NoValue
    /\ verdictUpper = NoValue

-----------------------------------------------------------------------------
(* The text functions applied to bounded inputs *)

\* number of fragments an input text is built from
MaxFrags == 3
\* number of times clean_text is applied in a row
MaxPasses == 2

Fragments == {
    <<>>,
    <<" ">>,
    <<"!">>,
    <<"h","t","t","p">>,
    <<"s",":","/","/","x",".","c","o">>,
    <<"H","T","T","P">>,
    <<"h","t">>,
    <<"t","p",":">>,
    <<"S","h","o","c","k","i","n","g">>,
    <<"S","E","C","R","E","T">>,
    <<"u","n">>,
    <<"m",DotlessI,"r","a","c","l","e">>,
    <<LongS,"h","o","c","k","i","n","g">> }

\* "Check this! https://x.co Amazing!!!"
ExampleText == <<"C","h","e","c","k"," ","t","h","i","s","!"," ","h","t","t","p","s",":","/","/","x",".","c","o"," ","A","m","a","z","i","n","g","!","!","!">>
\* "check this amazing"
ExampleCleaned == <<"c","h","e","c","k"," ","t","h","i","s"," ","a","m","a","z","i","n","g">>
\* "You won't believe this shocking discovery!"
ExampleClickbait == <<"Y","o","u"," ","w","o","n","'","t"," ","b","e","l","i","e","v","e"," ","t","h","i","s"," ","s","h","o","c","k","i","n","g"," ","d","i","s","c","o","v","e","r","y","!">>
\* "Scientists publish new research findings"
ExampleNotClickbait == <<"S","c","i","e","n","t","i","s","t","s"," ","p","u","b","l","i","s","h"," ","n","e","w"," ","r","e","s","e","a","r","c","h"," ","f","i","n","d","i","n","g","s">>

RECURSIVE Concat(_, _)
Concat(f, n) == IF n = 0 THEN <<>> ELSE Concat(f, n - 1) \o f[n]

Texts ==
    {Concat(f, MaxFrags) : f \in [1..MaxFrags -> Fragments]}
        \cup {ExampleText, ExampleClickbait, ExampleNotClickbait}

InitText ==
    /\ HighlightIdle
    /\ text \in Texts
    /\ cleaned = <<>>
    /\ verdict = NoValue
    /\ verdictUpper = NoValue
    /\ AppIdle

\* clean_text applied to the text, then to its own result
CleanText ==
    /\ pc = "idle"
    /\ Len(cleaned) < MaxPasses
    /\ cleaned' = Append(cleaned,
                         clean_text(IF cleaned = <<>> THEN text
                                    ELSE cleaned[Len(cleaned)]))
    /\ UNCHANGED <<text, verdict, verdictUpper>>
    /\ UNCHANGED appVars
    /\ UNCHANGED hlVars

\* detect_clickbait_in_title(title)
DetectClickbait ==
    /\ pc = "idle"
    /\ verdict = NoValue
    /\ verdict' = Some(detect_clickbait_in_title(text))
    /\ UNCHANGED <<text, cleaned, verdictUpper>>
    /\ UNCHANGED appVars
    /\ UNCHANGED hlVars

\* detect_clickbait_in_title(title.upper())
DetectClickbaitUpper ==
    /\ pc = "idle"
    /\ verdictUpper = NoValue
    /\ verdictUpper' = Some(detect_clickbait_in_title(upper(text)))
    /\ UNCHANGED <<text, cleaned, verdict>>
    /\ UNCHANGED appVars
    /\ UNCHANGED hlVars

NextText == CleanText \/ DetectClickbait \/ DetectClickbaitUpper

SpecText == InitText /\ [][NextText]_vars

-----------------------------------------------------------------------------
(* Properties of the text functions, checked under SpecText *)

\* the characters of s at the positions that satisfy Keep, in order
KeepWhere(s, Keep(_)) ==
    LET idx == SelectSeq([i \in 1..Len(s) |-> i], Keep)
    IN  [k \in 1..Len(idx) |-> s[idx[k]]]

\* w occurs in s at position k, comparing lowercased characters
OccursLoweredAt(w, s, k) ==
    /\ k + Len(w) - 1 <= Len(s)
    /\ \A j \in 1..Len(w) : LowerChar(s[k + j - 1]) = w[j]

\* C3: detect_clickbait_in_title returns "Clickbait" iff some entry of
\* CLICKBAIT_WORDS is a substring of the lowercased title (anywhere, also
\* inside a longer token), and "Not Clickbait" otherwise.
C3_ClickbaitIffLexiconSubstring ==
    verdict # NoValue =>
        /\ verdict \in {Some(Clickbait), Some(NotClickbait)}
        /\ verdict = Some(Clickbait) <=>
               \E n \in 1..Len(CLICKBAIT_WORDS) : \E k \in 1..Len(text) :
                   OccursLoweredAt(CLICKBAIT_WORDS[n], text, k)
        /\ text = ExampleClickbait => verdict = Some(Clickbait)
        /\ text = ExampleNotClickbait => verdict = Some(NotClickbait)

\* a title in capitals holding "secret" inside a longer token was classified
C3_Witness ==
    /\ verdict = Some(Clickbait)
    /\ text = <<"u","n","S","E","C","R","E","T","!">>

\* C4: detect_clickbait_in_title(t) == detect_clickbait_in_title(t.upper())
\* for every title t.
C4_ClickbaitCaseInsensitive ==
    (verdict # NoValue /\ verdictUpper # NoValue) => verdict = verdictUpper

\* C5: clean_text(clean_text(t)) == clean_text(t) for every text t.
C5_CleanTextIdempotent ==
    Len(cleaned) >= 2 => cleaned[2] = cleaned[1]

\* position i of s lies in a run of non-whitespace that starts with "http"
\* somewhere at or before i
InHttpRun(s, i) ==
    \E j \in 1..i :
        /\ j + 3 <= Len(s)
        /\ SubSeq(s, j, j + 3) = http
        /\ \A k \in j..i : ~IsSpace(s[k])

\* as InHttpRun, with at least one non-whitespace character after "http"
InUrlRun(s, i) ==
    \E j \in 1..i :
        /\ j + 4 <= Len(s)
        /\ SubSeq(s, j, j + 3) = http
        /\ \A k \in j..i : ~IsSpace(s[k])
        /\ ~IsSpace(s[j + 4])

WithoutHttpRuns(s) == KeepWhere(s, LAMBDA i : ~InHttpRun(s, i))
WithoutUrlRuns(s) == KeepWhere(s, LAMBDA i : ~InUrlRun(s, i))
WithoutPunctuation(s) == SelectSeq(s, LAMBDA c : IsWord(c) \/ IsSpace(c))
WithSingleSpaces(s) ==
    LET kept == KeepWhere(s, LAMBDA i : ~IsSpace(s[i]) \/ i = 1 \/ ~IsSpace(s[i - 1]))
    IN  [k \in 1..Len(kept) |-> IF IsSpace(kept[k]) THEN " " ELSE kept[k]]
Lowercased(s) == [k \in 1..Len(s) |-> LowerChar(s[k])]

-----------------------------------------------------------------------------
(* More Python primitives used by the front ends *)

\* str.strip(): leading and trailing whitespace removed
strip(s) ==
    LET first == EndOfSpace(s, 1)
        last == CHOOSE n \in 0..Len(s) :
                    /\ n = 0 \/ ~IsSpace(s[n])
                    /\ \A k \in (n + 1)..Len(s) : IsSpace(s[k])
    IN  IF first > Len(s) THEN <<>> ELSE SubSeq(s, first, last)

\* len(s.split()): the number of maximal runs of non-whitespace, from i on
RECURSIVE CountWordsFrom(_, _)
CountWordsFrom(s, i) ==
    IF i > Len(s) THEN 0
    ELSE IF IsSpace(s[i]) THEN CountWordsFrom(s, EndOfSpace(s, i))
    ELSE 1 + CountWordsFrom(s, EndOfNonSpace(s, i))

split_len(s) == CountWordsFrom(s, 1)

\* one pattern character against one text character under re.IGNORECASE;
\* "." is the wildcard (any character but a newline)
PatternCharMatches(p, c) ==
    IF p = "." THEN c # "\n"
    ELSE \/ p = c
         \/ LowerChar(p) = LowerChar(c)
         \/ UpperChar(p) = UpperChar(c)

\* pandas Series.str.contains(pat, case=False) on one str: re.search with
\* re.IGNORECASE.  Patterns are made of literal characters and "."
str_contains(s, pat) ==
    \E k \in 0..Len(s) :
        /\ k + Len(pat) <= Len(s)
        /\ \A j \in 1..Len(pat) : PatternCharMatches(pat[j], s[k + j])

\* round(x, 2) of a float; floats are counted in units of 1/10000, a tie
\* goes to the even hundredth
round2(x) ==
    LET q == x \div 100
        r == x % 100
    IN  IF r < 50 THEN 100 * q
        ELSE IF r > 50 THEN 100 * (q + 1)
        ELSE IF q % 2 = 0 THEN 100 * q ELSE 100 * (q + 1)

-----------------------------------------------------------------------------
(* Raw articles of the provider and clean_data.articles_to_df *)

\* a JSON member: absent from the dict, null, or a str
Absent == [kind |-> "absent", s |-> <<>>]
Null == [kind |-> "null", s |-> <<>>]
Str(s) == [kind |-> "str", s |-> s]

\* the "source" member: absent, null, or a dict with a "name" member
Source(kind, name) == [kind |-> kind, name |-> name]

Article(title, description, source, publishedAt) ==
    [title |-> title, description |-> description, source |-> source,
     publishedAt |-> publishedAt]

\* the exception raised while building the record of art, None if none;
\* members are read in the order of the statements of the loop body
RecordError(art) ==
    IF art.title.kind = "absent" THEN "KeyError"            \* art["title"]
    ELSE IF art.title.kind = "null" THEN "TypeError"        \* None + " "
    ELSE IF art.source.kind = "absent" THEN "KeyError"      \* art["source"]
    ELSE IF art.source.kind = "null" THEN "TypeError"       \* None["name"]
    ELSE IF art.source.name.kind = "absent" THEN "KeyError" \* ...["name"]
    ELSE IF art.publishedAt.kind = "absent" THEN "KeyError" \* art["publishedAt"]
    ELSE None

\* the record appended for art (the loop body without its failures)
Record(art) ==
    LET title == art.title.s
        description == IF art.description.kind = "str"
                       THEN art.description.s ELSE <<>>
        cleaned_text == clean_text(title \o <<" ">> \o description)
    IN  [source |-> art.source.name, title |-> title, text |-> cleaned_text,
         publishedAt |-> art.publishedAt]

\* articles_to_df(articles): the rows of the DataFrame, or the exception of
\* the first article that fails
RECURSIVE RecordsFrom(_, _, _)
RecordsFrom(arts, i, records) ==
    IF i > Len(arts) THEN [raised |-> None, value |-> records]
    ELSE IF RecordError(arts[i]) # None
         THEN [raised |-> RecordError(arts[i]), value |-> <<>>]
    ELSE RecordsFrom(arts, i + 1, Append(records, Record(arts[i])))

articles_to_df(arts) == RecordsFrom(arts, 1, <<>>)

\* the keyword filter of both front ends:
\* df[title.str.contains(topic, case=False) | text.str.contains(topic, case=False)]
FilterByTopic(rows, t) ==
    SelectSeq(rows, LAMBDA row : str_contains(row.title, t) \/ str_contains(row.text, t))

-----------------------------------------------------------------------------
(* api_fetch.fetch_articles *)

\* decoded response bodies: with or without an "articles" member
ErrorBody == [has_articles |-> FALSE, articles |-> <<>>]
ArticlesBody(arts) == [has_articles |-> TRUE, articles |-> arts]

\* as fetch_articles, returning an empty list when "articles" is missing
fetch_articles_swallow(body) ==
    IF ~body.has_articles THEN [raised |-> None, value |-> <<>>, sent |-> 1]
    ELSE [raised |-> None, value |-> body.articles, sent |-> 1]

\* fetch_articles for the body the provider answers with: the list returned
\* or the exception raised, and the number of requests.get calls made
fetch_articles(body) ==
    IF ~body.has_articles THEN [raised |-> "ValueError", value |-> <<>>, sent |-> 1]
    ELSE [raised |-> None, value |-> body.articles, sent |-> 1]

-----------------------------------------------------------------------------
(* llm_helper.analyze_article_with_local_llm *)

\* the character limit of text[:512]
MaxModelChars == 512

\* as Truncate, keeping the end of the text
TruncateTail(s) ==
    IF Len(s) <= MaxModelChars THEN s
    ELSE SubSeq(s, Len(s) - MaxModelChars + 1, Len(s))

\* text[:512]
Truncate(s) == IF Len(s) <= MaxModelChars THEN s ELSE SubSeq(s, 1, MaxModelChars)

\* the value returned for the raw output of the model
analyze_article_with_local_llm(raw) ==
    [label |-> capitalize(raw.label), score |-> round2(raw.score)]

-----------------------------------------------------------------------------
(* The loop body of the analysis stage in main.py and streamlit_app.py *)

Positive == <<"P","o","s","i","t","i","v","e">>
Negative == <<"N","e","g","a","t","i","v","e">>
Plus == <<" ","+"," ">>
likely_clickbait == <<"l","i","k","e","l","y"," ","c","l","i","c","k","b","a","i","t">>

\* as ResultRow, numbering the rows from 0
ResultRowFromZero(idx, row, clickbait_label, sentiment_label, sentiment_score) ==
    [Article |-> ToString(idx - 1),
     Title |-> row.title,
     Clickbait |-> clickbait_label,
     Sentiment |-> sentiment_label,
     SentimentScore |-> sentiment_score,
     CombinedLabel |-> clickbait_label \o Plus \o sentiment_label,
     WordCount |-> split_len(row.text)]

\* as ResultRow, counting the words of the title
ResultRowTitleWords(idx, row, clickbait_label, sentiment_label, sentiment_score) ==
    [Article |-> ToString(idx),
     Title |-> row.title,
     Clickbait |-> clickbait_label,
     Sentiment |-> sentiment_label,
     SentimentScore |-> sentiment_score,
     CombinedLabel |-> clickbait_label \o Plus \o sentiment_label,
     WordCount |-> split_len(row.title)]

\* the dict both loops append to results
ResultRow(idx, row, clickbait_label, sentiment_label, sentiment_score) ==
    [Article |-> ToString(idx),
     Title |-> row.title,
     Clickbait |-> clickbait_label,
     Sentiment |-> sentiment_label,
     SentimentScore |-> sentiment_score,
     CombinedLabel |-> clickbait_label \o Plus \o sentiment_label,
     WordCount |-> split_len(row.text)]

\* main.py: clickbait_label = clickbait_result
MainClickbaitLabel(clickbait_result) == clickbait_result

\* streamlit_app.py: clickbait_label =
\*     "Clickbait" if "likely clickbait" in clickbait_result.lower() else "Not Clickbait"
WebClickbaitLabel(clickbait_result) ==
    IF In(likely_clickbait, lower(clickbait_result)) THEN Clickbait ELSE NotClickbait

\* main.py: the dict appended to results for the idx-th filtered row
MainRow(idx, row, sentiment_result) ==
    ResultRow(idx, row,
              MainClickbaitLabel(detect_clickbait_in_title(row.title)),
              sentiment_result.label,
              sentiment_result.score)

\* streamlit_app.py: the dict appended to results for the idx-th filtered row
WebRow(idx, row, sentiment_result) ==
    ResultRow(idx, row,
              WebClickbaitLabel(detect_clickbait_in_title(row.title)),
              capitalize(sentiment_result.label),
              round2(sentiment_result.score))

-----------------------------------------------------------------------------
(* Inputs of the front ends *)

\* most articles in one provider response to main.py (page_size is 20)
MaxArticles == 2
\* most articles in one provider response to streamlit_app.py
MaxWebArticles == 1
\* most searches submitted to the web form in one session
MaxSearches == 2

Published == Str(<<"2","0","2","5">>)

\* "Shocking AI" / "so good!" / BBC
ArticleA ==
    Article(Str(<<"S","h","o","c","k","i","n","g"," ","A","I">>),
            Str(<<"s","o"," ","g","o","o","d","!">>),
            Source("dict", Str(<<"B","B","C">>)), Published)
\* "AI secret" / null description / null source name
ArticleB ==
    Article(Str(<<"A","I"," ","s","e","c","r","e","t">>), Null,
            Source("dict", Null), Published)
\* no title
ArticleC ==
    Article(Absent, Str(<<"a","i">>), Source("dict", Str(<<"B","B","C">>)), Published)

ArticlePool == {ArticleA, ArticleB, ArticleC}

ArticleLists(max) == UNION {[1..n -> ArticlePool] : n \in 0..max}

\* what the provider may answer: an error body always, a list of at most
\* max articles only to a request that carries a key
ProviderBodies(key, max) ==
    IF key = None THEN {ErrorBody}
    ELSE {ErrorBody} \cup {ArticlesBody(arts) : arts \in ArticleLists(max)}

\* what the user may type as a topic: "", " AI ", "s.c"
TopicInputs == {<<>>, <<" ","A","I"," ">>, <<"s",".","c">>}

\* what the sentiment model may do with a text: raise, or return a raw
\* label and a confidence (in 1/10000)
RawOutput(label, score) == [raises |-> FALSE, label |-> label, score |-> score]
ModelRaises == [raises |-> TRUE, label |-> <<>>, score |-> 0]
ClassifierOutcomes ==
    { RawOutput(<<"P","O","S","I","T","I","V","E">>, 9987),
      RawOutput(<<"N","E","G","A","T","I","V","E">>, 5049),
      RawOutput(<<"N","E","U","T","R","A","L">>, 6149),
      ModelRaises }

-----------------------------------------------------------------------------
(* demo.py: the demo run on built-in sample articles *)

SampleArticle1 ==
    [title |->
         <<"Y", "o", "u", " ", "W", "o", "n", "'", "t", " ", "B", "e", "l",
           "i", "e", "v", "e", " ", "W", "h", "a", "t", " ", "T", "h", "i",
           "s", " ", "C", "e", "l", "e", "b", "r", "i", "t", "y", " ", "D",
           "i", "d", " ", "N", "e", "x", "t", "!">>,
     source |->
         <<"C", "l", "i", "c", "k", "b", "a", "i", "t", "N", "e", "w", "s">>,
     content |->
         <<"T", "h", "i", "s", " ", "s", "h", "o", "c", "k", "i", "n", "g",
           " ", "r", "e", "v", "e", "l", "a", "t", "i", "o", "n", " ", "w",
           "i", "l", "l", " ", "c", "h", "a", "n", "g", "e", " ", "e", "v",
           "e", "r", "y", "t", "h", "i", "n", "g", " ", "y", "o", "u", " ",
           "t", "h", "o", "u", "g", "h", "t", " ", "y", "o", "u", " ", "k",
           "n", "e", "w", " ", "a", "b", "o", "u", "t", " ", "c", "e", "l",
           "e", "b", "r", "i", "t", "i", "e", "s", ".">>,
     topic |->
         <<"c", "e", "l", "e", "b", "r", "i", "t", "y">>]

SampleArticle2 ==
    [title |->
         <<"F", "e", "d", "e", "r", "a", "l", " ", "R", "e", "s", "e", "r",
           "v", "e", " ", "A", "n", "n", "o", "u", "n", "c", "e", "s", " ",
           "N", "e", "w", " ", "I", "n", "t", "e", "r", "e", "s", "t", " ",
           "R", "a", "t", "e", " ", "P", "o", "l", "i", "c", "y">>,
     source |->
         <<"F", "i", "n", "a", "n", "c", "i", "a", "l", " ", "T", "i", "m",
           "e", "s">>,
     content |->
         <<"T", "h", "e", " ", "F", "e", "d", "e", "r", "a", "l", " ", "R",
           "e", "s", "e", "r", "v", "e", " ", "h", "a", "s", " ", "a", "n",
           "n", "o", "u", "n", "c", "e", "d", " ", "a", " ", "n", "e", "w",
           " ", "m", "o", "n", "e", "t", "a", "r", "y", " ", "p", "o", "l",
           "i", "c", "y", " ", "f", "r", "a", "m", "e", "w", "o", "r", "k",
           " ", "t", "a", "r", "g", "e", "t", "i", "n", "g", " ", "i", "n",
           "f", "l", "a", "t", "i", "o", "n", " ", "c", "o", "n", "t", "r",
           "o", "l", ".">>,
     topic |->
         <<"e", "c", "o", "n", "o", "m", "y">>]

SampleArticle3 ==
    [title |->
         <<"S", "c", "i", "e", "n", "t", "i", "s", "t", "s", " ", "D", "i",
           "s", "c", "o", "v", "e", "r", " ", "N", "e", "w", " ", "S", "p",
           "e", "c", "i", "e", "s", " ", "i", "n", " ", "A", "m", "a", "z",
           "o", "n", " ", "R", "a", "i", "n", "f", "o", "r", "e", "s", "t">>,
     source |->
         <<"N", "a", "t", "u", "r", "e", " ", "J", "o", "u", "r", "n", "a",
           "l">>,
     content |->
         <<"R", "e", "s", "e", "a", "r", "c", "h", "e", "r", "s", " ", "h",
           "a", "v", "e", " ", "i", "d", "e", "n", "t", "i", "f", "i", "e",
           "d", " ", "a", " ", "p", "r", "e", "v", "i", "o", "u", "s", "l",
           "y", " ", "u", "n", "k", "n", "o", "w", "n", " ", "p", "r", "i",
           "m", "a", "t", "e", " ", "s", "p", "e", "c", "i", "e", "s", " ",
           "i", "n", " ", "t", "h", "e", " ", "A", "m", "a", "z", "o", "n",
           " ", "b", "a", "s", "i", "n", ".">>,
     topic |->
         <<"s", "c", "i", "e", "n", "c", "e">>]

SampleArticle4 ==
    [title |->
         <<"T", "h", "i", "s", " ", "S", "i", "m", "p", "l", "e", " ", "T",
           "r", "i", "c", "k", " ", "W", "i", "l", "l", " ", "D", "o", "u",
           "b", "l", "e", " ", "Y", "o", "u", "r", " ", "I", "n", "c", "o",
           "m", "e", " ", "O", "v", "e", "r", "n", "i", "g", "h", "t", "!">>,
     source |->
         <<"M", "o", "n", "e", "y", "H", "a", "c", "k", "s">>,
     content |->
         <<"F", "i", "n", "a", "n", "c", "i", "a", "l", " ", "e", "x", "p",
           "e", "r", "t", "s", " ", "h", "a", "t", "e", " ", "t", "h", "i",
           "s", " ", "o", "n", "e", " ", "w", "e", "i", "r", "d", " ", "t",
           "r", "i", "c", "k", " ", "t", "h", "a", "t", " ", "c", "a", "n",
           " ", "t", "r", "a", "n", "s", "f", "o", "r", "m", " ", "y", "o",
           "u", "r", " ", "f", "i", "n", "a", "n", "c", "e", "s", " ", "i",
           "n", "s", "t", "a", "n", "t", "l", "y", ".">>,
     topic |->
         <<"f", "i", "n", "a", "n", "c", "e">>]

SampleArticle5 ==
    [title |->
         <<"C", "l", "i", "m", "a", "t", "e", " ", "C", "h", "a", "n", "g",
           "e", " ", "R", "e", "p", "o", "r", "t", " ", "S", "h", "o", "w",
           "s", " ", "A", "l", "a", "r", "m", "i", "n", "g", " ", "T", "e",
           "m", "p", "e", "r", "a", "t", "u", "r", "e", " ", "T", "r", "e",
           "n", "d", "s">>,
     source |->
         <<"E", "n", "v", "i", "r", "o", "n", "m", "e", "n", "t", "a", "l",
           " ", "S", "c", "i", "e", "n", "c", "e">>,
     content |->
         <<"L", "a", "t", "e", "s", "t", " ", "I", "P", "C", "C", " ", "r",
           "e", "p", "o", "r", "t", " ", "r", "e", "v", "e", "a", "l", "s",
           " ", "c", "o", "n", "c", "e", "r", "n", "i", "n", "g", " ", "d",
           "a", "t", "a", " ", "a", "b", "o", "u", "t", " ", "g", "l", "o",
           "b", "a", "l", " ", "t", "e", "m", "p", "e", "r", "a", "t", "u",
           "r", "e", " ", "i", "n", "c", "r", "e", "a", "s", "e", "s", " ",
           "o", "v", "e", "r", " ", "t", "h", "e", " ", "p", "a", "s", "t",
           " ", "d", "e", "c", "a", "d", "e", ".">>,
     topic |->
         <<"c", "l", "i", "m", "a", "t", "e">>]

\* create_sample_data()
create_sample_data ==
    <<SampleArticle1, SampleArticle2, SampleArticle3, SampleArticle4, SampleArticle5>>

CrossMark == <<"U+274C">>
NEGATIVE == <<"N", "E", "G", "A", "T", "I", "V", "E">>
POSITIVE == <<"P", "O", "S", "I", "T", "I", "V", "E">>
Neutral == <<"N", "e", "u", "t", "r", "a", "l">>

\* clickbait_clean (line 86)
DemoClickbaitClean(clickbait_result) ==
    IF In(CrossMark, clickbait_result) THEN Clickbait ELSE NotClickbait

\* sentiment_result.upper() (line 90): sentiment_result is the dict returned
\* by analyze_article_with_local_llm, and a dict has no method upper
DictUpper(sentiment_result) ==
    [raised |-> "AttributeError", value |-> <<>>]

\* sentiment_clean (lines 90-95) from the upper-cased result
DemoSentimentClean(upper_result) ==
    IF In(NEGATIVE, upper_result) THEN Negative
    ELSE IF In(POSITIVE, upper_result) THEN Positive
    ELSE Neutral

\* the dict appended to results (lines 101-109)
DemoRow(idx, article, clickbait_clean, sentiment_clean) ==
    [Article |-> idx,
     Title |-> article.title,
     Source |-> article.source,
     Topic |-> article.topic,
     Clickbait |-> clickbait_clean,
     Sentiment |-> sentiment_clean,
     Word_Count |-> split_len(article.content)]

\* one iteration of the loop of analyze_sample_articles (lines 81-109); an
\* exception leaves the function and is caught in main() (line 188)
Demo_AnalyzeArticle ==
    /\ frontend = "demo" /\ pc = "demo_analyze"
    /\ LET idx == Len(results) + 1
           article == articles[idx]
           clickbait_clean == DemoClickbaitClean(detect_clickbait_in_title(article.title))
       IN  \E outcome \in ClassifierOutcomes :
               /\ model_inputs' = Append(model_inputs, Truncate(article.content))
               /\ IF outcome.raises
                  THEN /\ error' = "RuntimeError"
                       /\ pc' = "demo_except"
                       /\ UNCHANGED results
                  ELSE LET upper_result ==
                               DictUpper(analyze_article_with_local_llm(outcome))
                       IN  IF upper_result.raised # None
                           THEN /\ error' = upper_result.raised
                                /\ pc' = "demo_except"
                                /\ UNCHANGED results
                           ELSE /\ results' = Append(results,
                                        DemoRow(idx, article, clickbait_clean,
                                                DemoSentimentClean(upper_result.value)))
                                /\ pc' = IF idx = Len(articles)
                                         THEN "demo_visualize" ELSE "demo_analyze"
                                /\ UNCHANGED error
    /\ UNCHANGED <<frontend, API_KEY, topic, requests, data, articles, df,
                   df_filtered, choice, csv_file, sqlite_db, session_state>>
    /\ UNCHANGED textVars
    /\ UNCHANGED hlVars

\* the rest of main() (lines 175-190): the charts, the CSV file, the
\* statistics and the success message, or the except branch, which prints
\* the error and returns
Demo_Finish ==
    /\ frontend = "demo" /\ pc \in {"demo_visualize", "demo_except"}
    /\ IF pc = "demo_except"
       THEN pc' = "demo_error" /\ UNCHANGED csv_file
       ELSE pc' = "demo_completed" /\ csv_file' = Some(results)
    /\ UNCHANGED <<frontend, API_KEY, topic, requests, data, articles, df,
                   df_filtered, results, model_inputs, choice, sqlite_db,
                   error, session_state>>
    /\ UNCHANGED textVars
    /\ UNCHANGED hlVars

-----------------------------------------------------------------------------
(* main.py: main() *)

Init ==
    /\ HighlightIdle
    /\ TextIdle
    /\ frontend \in {"terminal", "web", "demo"}
    /\ API_KEY \in {None, "k3y"}
    /\ pc = CASE frontend = "terminal" -> "input_topic"
              [] frontend = "web" -> "await_event"
              [] frontend = "demo" -> "demo_analyze"
    /\ topic = <<>>
    /\ requests = 0
    /\ data = NoValue
    /\ articles = IF frontend = "demo" THEN create_sample_data ELSE <<>>
    /\ df = <<>>
    /\ df_filtered = <<>>
    /\ results = <<>>
    /\ model_inputs = <<>>
    /\ choice = 0
    /\ csv_file = NoValue
    /\ sqlite_db = NoValue
    /\ error = None
    /\ session_state = EmptySession

\* topic_input = input(...).strip(); topic = topic_input.lower()
Main_InputTopic ==
    /\ frontend = "terminal" /\ pc = "input_topic"
    /\ \E topic_input \in TopicInputs : topic' = lower(strip(topic_input))
    /\ pc' = "fetch"
    /\ UNCHANGED <<frontend, API_KEY, requests, data, articles, df, df_filtered,
                   results, model_inputs, choice, csv_file, sqlite_db, error,
                   session_state>>
    /\ UNCHANGED textVars
    /\ UNCHANGED hlVars

\* Step 1: articles = fetch_articles(topic, page_size=20); if not articles: return
Main_FetchArticles ==
    /\ frontend = "terminal" /\ pc = "fetch"
    /\ \E body \in ProviderBodies(API_KEY, MaxArticles) :
           LET fetched == fetch_articles(body) IN
           /\ requests' = requests + fetched.sent
           /\ data' = Some(body.has_articles)
           /\ articles' = fetched.value
           /\ error' = fetched.raised
           /\ pc' = IF fetched.raised # None THEN "crashed"
                    ELSE IF fetched.value = <<>> THEN "done"
                    ELSE "clean"
    /\ UNCHANGED <<frontend, API_KEY, topic, df, df_filtered, results,
                   model_inputs, choice, csv_file, sqlite_db, session_state>>
    /\ UNCHANGED textVars
    /\ UNCHANGED hlVars

\* Step 2: df = articles_to_df(articles)
Main_CleanData ==
    /\ frontend = "terminal" /\ pc = "clean"
    /\ LET built == articles_to_df(articles) IN
           /\ df' = built.value
           /\ error' = built.raised
           /\ pc' = IF built.raised # None THEN "crashed" ELSE "filter"
    /\ UNCHANGED <<frontend, API_KEY, topic, requests, data, articles,
                   df_filtered, results, model_inputs, choice, csv_file,
                   sqlite_db, session_state>>
    /\ UNCHANGED textVars
    /\ UNCHANGED hlVars

\* Step 3: df_filtered = df[...]; if df_filtered.empty: return
Main_Filter ==
    /\ frontend = "terminal" /\ pc = "filter"
    /\ df_filtered' = FilterByTopic(df, topic)
    /\ pc' = IF df_filtered' = <<>> THEN "done" ELSE "analyze"
    /\ UNCHANGED <<frontend, API_KEY, topic, requests, data, articles, df,
                   results, model_inputs, choice, csv_file, sqlite_db, error,
                   session_state>>
    /\ UNCHANGED textVars
    /\ UNCHANGED hlVars

\* Step 4: one iteration of the loop over df_filtered.iterrows()
Main_AnalyzeArticle ==
    /\ frontend = "terminal" /\ pc = "analyze"
    /\ LET idx == Len(results) + 1
           row == df_filtered[idx]
       IN  \E outcome \in ClassifierOutcomes :
               /\ model_inputs' = Append(model_inputs, Truncate(row.text))
               /\ IF outcome.raises
                  THEN /\ error' = "RuntimeError"
                       /\ pc' = "crashed"
                       /\ UNCHANGED results
                  ELSE /\ results' = Append(results,
                               MainRow(idx, row, analyze_article_with_local_llm(outcome)))
                       /\ pc' = IF idx = Len(df_filtered) THEN "list" ELSE "analyze"
                       /\ UNCHANGED error
    /\ UNCHANGED <<frontend, API_KEY, topic, requests, data, articles, df,
                   df_filtered, choice, csv_file, sqlite_db, session_state>>
    /\ UNCHANGED textVars
    /\ UNCHANGED hlVars

\* Steps 5-7: the pie chart, then every title printed through
\* highlight_keyword(row["Title"], topic), whose loop does not advance on a
\* non-empty title when the keyword is empty
Main_ListArticles ==
    /\ frontend = "terminal" /\ pc = "list"
    /\ ~(topic = <<>> /\ \E k \in 1..Len(results) : results[k].Title # <<>>)
    /\ pc' = "select"
    /\ UNCHANGED <<frontend, API_KEY, topic, requests, data, articles, df,
                   df_filtered, results, model_inputs, choice, csv_file,
                   sqlite_db, error, session_state>>
    /\ UNCHANGED textVars
    /\ UNCHANGED hlVars

\* what the user may type as an article number: not an integer, or one of
\* 0 .. len(df_results)+1
ChoiceInputs(n) ==
    {[is_int |-> FALSE, n |-> 0]} \cup {[is_int |-> TRUE, n |-> c] : c \in 0..(n + 1)}

\* as Main_SelectArticle, accepting the numbers 0 .. len(df_results)
Main_SelectArticleFromZero ==
    /\ frontend = "terminal" /\ pc = "select"
    /\ \E typed \in ChoiceInputs(Len(results)) :
           IF typed.is_int /\ 0 <= typed.n /\ typed.n <= Len(results)
           THEN choice' = typed.n /\ pc' = "save_csv"
           ELSE UNCHANGED <<choice, pc>>
    /\ UNCHANGED <<frontend, API_KEY, topic, requests, data, articles, df,
                   df_filtered, results, model_inputs, csv_file, sqlite_db,
                   error, session_state>>
    /\ UNCHANGED textVars
    /\ UNCHANGED hlVars

\* Step 8: one iteration of the selection loop; Step 9 prints the article
Main_SelectArticle ==
    /\ frontend = "terminal" /\ pc = "select"
    /\ \E typed \in ChoiceInputs(Len(results)) :
           IF typed.is_int /\ 1 <= typed.n /\ typed.n <= Len(results)
           THEN choice' = typed.n /\ pc' = "save_csv"
           ELSE UNCHANGED <<choice, pc>>
    /\ UNCHANGED <<frontend, API_KEY, topic, requests, data, articles, df,
                   df_filtered, results, model_inputs, csv_file, sqlite_db,
                   error, session_state>>
    /\ UNCHANGED textVars
    /\ UNCHANGED hlVars

\* as Main_SaveCsv, leaving the export to a later step
Main_SaveCsvLater ==
    /\ frontend = "terminal" /\ pc = "save_csv"
    /\ pc' = "save_sql"
    /\ UNCHANGED <<frontend, API_KEY, topic, requests, data, articles, df,
                   df_filtered, results, model_inputs, choice, csv_file,
                   sqlite_db, error, session_state>>
    /\ UNCHANGED textVars
    /\ UNCHANGED hlVars

\* Step 10: df_results.to_csv(output_path, index=False)
Main_SaveCsv ==
    /\ frontend = "terminal" /\ pc = "save_csv"
    /\ csv_file' = Some(results)
    /\ pc' = "save_sql"
    /\ UNCHANGED <<frontend, API_KEY, topic, requests, data, articles, df,
                   df_filtered, results, model_inputs, choice, sqlite_db,
                   error, session_state>>
    /\ UNCHANGED textVars
    /\ UNCHANGED hlVars

\* Steps 11-12: df_results.to_sql("articles", conn, if_exists="replace"),
\* the count query, conn.close()
Main_SaveSql ==
    /\ frontend = "terminal" /\ pc = "save_sql"
    /\ sqlite_db' = Some(results)
    /\ pc' = "stats"
    /\ UNCHANGED <<frontend, API_KEY, topic, requests, data, articles, df,
                   df_filtered, results, model_inputs, choice, csv_file,
                   error, session_state>>
    /\ UNCHANGED textVars
    /\ UNCHANGED hlVars

\* Step 13: run_statistical_analysis(df_results); pearsonr raises ValueError
\* on fewer than two observations
Main_Statistics ==
    /\ frontend = "terminal" /\ pc = "stats"
    /\ IF Len(results) < 2
       THEN error' = "ValueError" /\ pc' = "crashed"
       ELSE error' = None /\ pc' = "done"
    /\ UNCHANGED <<frontend, API_KEY, topic, requests, data, articles, df,
                   df_filtered, results, model_inputs, choice, csv_file,
                   sqlite_db, session_state>>
    /\ UNCHANGED textVars
    /\ UNCHANGED hlVars

-----------------------------------------------------------------------------
(* streamlit_app.py: one run of the script per user event.  Every run starts *)
(* in a fresh namespace: of the names a run binds only st.session_state     *)
(* outlives it, so the script's local names stay empty between runs.        *)

\* index of the first outcome that raises, 0 if none does
FirstRaise(outcomes) ==
    IF \E k \in DOMAIN outcomes : outcomes[k].raises
    THEN CHOOSE k \in DOMAIN outcomes :
             /\ outcomes[k].raises
             /\ \A j \in 1..(k - 1) : ~outcomes[j].raises
    ELSE 0

\* the search block after the fetch (lines 125-138): what the run holds
\* when it reaches the analysis loop or stops before it
WebAfterFetch(ss1, t, fetched, built) ==
    LET stopped == [error |-> None, df_filtered |-> <<>>, results |-> <<>>,
                    model_inputs |-> <<>>, session_state |-> ss1,
                    sent |-> fetched.sent]
    IN  IF fetched.raised # None THEN [stopped EXCEPT !.error = fetched.raised]
        ELSE IF fetched.value = <<>> THEN stopped
        ELSE IF built.raised # None THEN [stopped EXCEPT !.error = built.raised]
        ELSE [stopped EXCEPT !.df_filtered = FilterByTopic(built.value, t)]

WebAfterRequest(ss1, t, fetched) ==
    WebAfterFetch(ss1, t, fetched, articles_to_df(fetched.value))

\* as WebSearchPrologue, without the reset of the selection
WebSearchPrologueNoReset(ss, t, body) ==
    WebAfterRequest([ss EXCEPT !.topic = t], t, fetch_articles(body))

\* the search block (lines 116-138) for topic t and the provider's body,
\* started in session state ss: everything up to the analysis loop
WebSearchPrologue(ss, t, body) ==
    WebAfterRequest([ss EXCEPT !.topic = t, !.selected_article_idx = NoValue],
                    t, fetch_articles(body))

\* the rows appended before the loop ends or the model raises
RECURSIVE WebRows(_, _, _, _)
WebRows(filtered, outcomes, k, rows) ==
    IF k > Len(filtered) \/ outcomes[k].raises THEN rows
    ELSE WebRows(filtered, outcomes, k + 1,
                 Append(rows, WebRow(k, filtered[k],
                                     analyze_article_with_local_llm(outcomes[k]))))

\* as WebAfterLoop, keeping the rows built before the model raised
WebAfterLoopKeepPartial(pre, stop, rows) ==
    [pre EXCEPT
        !.results = rows,
        !.model_inputs =
            [k \in 1..(IF stop = 0 THEN Len(pre.df_filtered) ELSE stop) |->
                Truncate(pre.df_filtered[k].text)],
        !.error = IF stop # 0 THEN "RuntimeError" ELSE None,
        !.session_state =
            [@ EXCEPT !.df_results = Some(rows),
                      !.df_filtered = Some(pre.df_filtered)]]

\* the end of the analysis loop (lines 164-166, or the exception)
WebAfterLoop(pre, stop, rows) ==
    [pre EXCEPT
        !.results = rows,
        !.model_inputs =
            [k \in 1..(IF stop = 0 THEN Len(pre.df_filtered) ELSE stop) |->
                Truncate(pre.df_filtered[k].text)],
        !.error = IF stop # 0 THEN "RuntimeError" ELSE None,
        !.session_state =
            IF stop # 0 THEN @
            ELSE [@ EXCEPT !.df_results = Some(rows),
                           !.df_filtered = Some(pre.df_filtered)]]

\* as WebSearchRun, entering the analysis stage on an empty df_filtered too
WebSearchRunAlways(pre, outcomes) ==
    IF pre.error # None THEN pre
    ELSE WebAfterLoop(pre, FirstRaise(outcomes),
                      WebRows(pre.df_filtered, outcomes, 1, <<>>))

\* the analysis loop (lines 140-166) after the prologue pre, for the model's
\* outcome on each filtered row; an empty df_filtered skips it
WebSearchRun(pre, outcomes) ==
    IF pre.df_filtered = <<>> THEN pre
    ELSE WebAfterLoop(pre, FirstRaise(outcomes),
                      WebRows(pre.df_filtered, outcomes, 1, <<>>))

\* the selected-article block (lines 194-236) in session state ss: the
\* exception raised, None if none, and the CSV content written
WebSelectedBlock(ss, csv) ==
    IF ss.selected_article_idx = NoValue
        THEN [error |-> None, csv_file |-> csv]
    ELSE IF ss.df_results = NoValue \/ ss.df_filtered = NoValue
        THEN [error |-> "AttributeError", csv_file |-> csv]
    ELSE IF \/ ss.selected_article_idx[1] >= Len(ss.df_results[1])
            \/ ss.selected_article_idx[1] >= Len(ss.df_filtered[1])
        THEN [error |-> "IndexError", csv_file |-> csv]
    ELSE [error |-> None, csv_file |-> Some(ss.df_results[1])]

\* the end of a run that searched: the selected-article block, then the
\* new values of the variables
WebFinish(run, shown) ==
    /\ requests' = requests + run.sent
    /\ model_inputs' = run.model_inputs
    /\ df_filtered' = run.df_filtered
    /\ session_state' = run.session_state
    /\ error' = IF run.error # None THEN run.error ELSE shown.error
    /\ csv_file' = IF run.error # None THEN csv_file ELSE shown.csv_file

WebSearchEnd(run) == WebFinish(run, WebSelectedBlock(run.session_state, csv_file))

WebSearchLoop(pre) ==
    \E outcomes \in [1..Len(pre.df_filtered) -> ClassifierOutcomes] :
        WebSearchEnd(WebSearchRun(pre, outcomes))

\* the Search button pressed with a non-blank topic
Web_SubmitSearch ==
    /\ frontend = "web" /\ pc = "await_event"
    /\ requests < MaxSearches
    /\ \E topic_input \in TopicInputs :
       \E body \in ProviderBodies(API_KEY, MaxWebArticles) :
           /\ strip(topic_input) # <<>>
           /\ data' = Some(body.has_articles)
           /\ WebSearchLoop(WebSearchPrologue(session_state,
                                              lower(strip(topic_input)), body))
    /\ UNCHANGED <<frontend, API_KEY, pc, topic, articles, df, results,
                   choice, sqlite_db>>
    /\ UNCHANGED textVars
    /\ UNCHANGED hlVars

\* a run without search and without click: the Search button pressed with a
\* blank topic, or another widget event
Web_Rerun ==
    /\ frontend = "web" /\ pc = "await_event"
    /\ LET shown == WebSelectedBlock(session_state, csv_file) IN
           /\ error' = shown.error
           /\ csv_file' = shown.csv_file
    /\ data' = NoValue
    /\ model_inputs' = <<>>
    /\ df_filtered' = <<>>
    /\ UNCHANGED <<frontend, API_KEY, pc, topic, requests, articles, df,
                   results, choice, sqlite_db, session_state>>
    /\ UNCHANGED textVars
    /\ UNCHANGED hlVars

\* an article button pressed: the buttons exist when both frames are set,
\* one per row of df_results, and carry the row's index 0..n-1
Web_ClickArticle ==
    /\ frontend = "web" /\ pc = "await_event"
    /\ session_state.df_results # NoValue
    /\ session_state.df_filtered # NoValue
    /\ \E idx \in 0..(Len(session_state.df_results[1]) - 1) :
           LET ss1 == [session_state EXCEPT !.selected_article_idx = Some(idx)]
               shown == WebSelectedBlock(ss1, csv_file)
           IN  /\ session_state' = ss1
               /\ error' = shown.error
               /\ csv_file' = shown.csv_file
    /\ data' = NoValue
    /\ model_inputs' = <<>>
    /\ df_filtered' = <<>>
    /\ UNCHANGED <<frontend, API_KEY, pc, topic, requests, articles, df,
                   results, choice, sqlite_db>>
    /\ UNCHANGED textVars
    /\ UNCHANGED hlVars

Next ==
    \/ Main_InputTopic
    \/ Main_FetchArticles
    \/ Main_CleanData
    \/ Main_Filter
    \/ Main_AnalyzeArticle
    \/ Main_ListArticles
    \/ Main_SelectArticle
    \/ Main_SaveCsv
    \/ Main_SaveSql
    \/ Main_Statistics
    \/ Web_SubmitSearch
    \/ Web_Rerun
    \/ Web_ClickArticle
    \/ Demo_AnalyzeArticle
    \/ Demo_Finish

Spec == Init /\ [][Next]_vars

-----------------------------------------------------------------------------
(* articles_to_df applied to bounded lists of raw articles *)

\* most articles in a list handed to articles_to_df
MaxRecords == 2

Members == {Absent, Null, Str(<<"A","I">>)}
Sources == {Source("absent", Absent), Source("null", Absent)}
               \cup {Source("dict", name) : name \in Members}
RawArticles ==
    {Article(title, description, source, publishedAt) :
        title \in Members, description \in Members \cup {Str(<<>>)},
        source \in Sources, publishedAt \in {Absent, Published}}

InitDf ==
    /\ HighlightIdle
    /\ TextIdle
    /\ frontend = None
    /\ API_KEY = None
    /\ pc = "build"
    /\ topic = <<>>
    /\ requests = 0
    /\ data = NoValue
    /\ articles \in UNION {[1..n -> RawArticles] : n \in 0..MaxRecords}
    /\ df = <<>>
    /\ df_filtered = <<>>
    /\ results = <<>>
    /\ model_inputs = <<>>
    /\ choice = 0
    /\ csv_file = NoValue
    /\ sqlite_db = NoValue
    /\ error = None
    /\ session_state = EmptySession

\* df = articles_to_df(articles)
BuildDataFrame ==
    /\ pc = "build"
    /\ LET built == articles_to_df(articles) IN
           /\ df' = built.value
           /\ error' = built.raised
    /\ pc' = "built"
    /\ UNCHANGED <<frontend, API_KEY, topic, requests, data, articles,
                   df_filtered, results, model_inputs, choice, csv_file,
                   sqlite_db, session_state>>
    /\ UNCHANGED textVars
    /\ UNCHANGED hlVars

SpecDf == InitDf /\ [][BuildDataFrame]_vars

-----------------------------------------------------------------------------
(* Properties of the front ends, checked under Spec *)

\* the rows of an optional frame
RowsOf(frame) == IF frame = NoValue THEN <<>> ELSE frame[1]

\* every annotated record the program holds or has written
EmittedRows ==
    {results[k] : k \in 1..Len(results)}
        \cup {RowsOf(session_state.df_results)[k] :
                 k \in 1..Len(RowsOf(session_state.df_results))}
        \cup {RowsOf(csv_file)[k] : k \in 1..Len(RowsOf(csv_file))}
        \cup {RowsOf(sqlite_db)[k] : k \in 1..Len(RowsOf(sqlite_db))}

\* C1: every annotated record has Sentiment in {Positive, Negative} and a
\* Sentiment Score in [0,1]; a raw label outside POSITIVE/NEGATIVE never
\* reaches a record.
C1_SentimentTwoClasses ==
    \A r \in EmittedRows :
        /\ r.Sentiment \in {Positive, Negative}
        /\ 0 <= r.SentimentScore /\ r.SentimentScore <= 10000

\* C2: in both front ends the Clickbait label recorded for an article equals
\* detect_clickbait_in_title of its title.
C2_SameClickbaitLabel ==
    \A r \in EmittedRows : r.Clickbait = detect_clickbait_in_title(r.Title)

\* rows holds one row per record of recs, in order, numbered from 1
RowsMatch(rows, recs) ==
    /\ Len(rows) = Len(recs)
    /\ \A k \in 1..Len(rows) :
           /\ rows[k].Article = ToString(k)
           /\ rows[k].Title = recs[k].title

\* main.py is past its analysis loop
MainAnalysed ==
    /\ frontend = "terminal"
    /\ \/ pc \in {"list", "select", "save_csv", "save_sql", "stats"}
       \/ pc \in {"done", "crashed"} /\ sqlite_db # NoValue

\* C7: the analysis stage gives one row per filtered record, in input order:
\* n records give n rows, row k is numbered "k" and carries the title of the
\* k-th record (in main.py after the loop, in streamlit_app.py in the frames
\* kept in session state).
C7_OneRowPerRecordInOrder ==
    /\ MainAnalysed => RowsMatch(results, df_filtered)
    /\ (frontend = "terminal" /\ pc = "analyze") =>
           RowsMatch(results, SubSeq(df_filtered, 1, Len(results)))
    /\ session_state.df_results # NoValue =>
           /\ session_state.df_filtered # NoValue
           /\ RowsMatch(session_state.df_results[1], session_state.df_filtered[1])

\* two different articles were analysed by main.py
C7_Witness ==
    /\ MainAnalysed
    /\ Len(df_filtered) = 2
    /\ Len(results) = 2
    /\ results[1].Title # results[2].Title

\* C9: a response without "articles" makes fetch_articles raise (nothing is
\* returned, the run ends with the error), and every call sends exactly one
\* request.
C9_MissingArticlesRaises ==
    /\ [](data = Some(FALSE) =>
            /\ error = "ValueError"
            /\ articles = <<>> /\ results = <<>> /\ model_inputs = <<>>
            /\ frontend = "terminal" => pc = "crashed")
    /\ [](frontend = "terminal" =>
            requests = IF pc \in {"input_topic", "fetch"} THEN 0 ELSE 1)
    /\ [][/\ requests' # requests => requests' = requests + 1 /\ data' # NoValue
          /\ (frontend = "web" /\ data' # NoValue /\ vars' # vars) =>
                 requests' = requests + 1]_vars

\* the provider refused a request that carried a key
C9_Witness ==
    /\ API_KEY # None
    /\ data = Some(FALSE)
    /\ error = "ValueError"
    /\ requests = 1

\* C10: without an API key the program stops at startup: no request is sent
\* and no provider response is read.
C10_NoRequestWithoutKey ==
    API_KEY = None => (requests = 0 /\ data = NoValue)

-----------------------------------------------------------------------------
(* Properties of articles_to_df, checked under SpecDf *)

MemberAbsent(m) == m.kind \in {"absent", "null"}
SourceNameAbsent(art) == art.source.kind # "dict" \/ MemberAbsent(art.source.name)

\* C8: articles_to_df fails when an article's title or source.name is absent
\* (missing key or null), and an absent or null description is no failure:
\* it counts as the empty string.
C8_MissingFieldFails ==
    pc = "built" =>
        /\ (\E i \in 1..Len(articles) :
                MemberAbsent(articles[i].title) \/ SourceNameAbsent(articles[i]))
               => error # None
        /\ (\A i \in 1..Len(articles) :
                /\ ~MemberAbsent(articles[i].title)
                /\ ~SourceNameAbsent(articles[i])
                /\ articles[i].publishedAt.kind # "absent")
               => /\ error = None
                  /\ Len(df) = Len(articles)
                  /\ \A i \in 1..Len(articles) :
                         MemberAbsent(articles[i].description) =>
                             df[i].text = clean_text(articles[i].title.s \o <<" ">>)

-----------------------------------------------------------------------------
(* Further properties of the front ends, checked under Spec *)

\* C11: the statistics step never raises: once main.py has written its
\* sinks, run_statistical_analysis ends without an exception, also on fewer
\* than two records.
C11_StatisticsNeverRaise ==
    (frontend = "terminal" /\ sqlite_db # NoValue) => error = None

\* C12: a failing sentiment call aborts the whole run: main.py ends crashed
\* with nothing written to the CSV file or the database, and a web run that
\* fails leaves the frames in session state and the CSV file as they were.
C12_ClassificationFailureAborts ==
    /\ []((frontend = "terminal" /\ error = "RuntimeError") =>
             /\ pc = "crashed"
             /\ csv_file = NoValue
             /\ sqlite_db = NoValue)
    /\ [][(error' = "RuntimeError" /\ vars' # vars) =>
             /\ session_state'.df_results = session_state.df_results
             /\ session_state'.df_filtered = session_state.df_filtered
             /\ csv_file' = csv_file
             /\ sqlite_db' = sqlite_db]_vars

\* main.py analysed the first article and the model raised on the second
C12_Witness ==
    /\ frontend = "terminal"
    /\ error = "RuntimeError"
    /\ Len(df_filtered) = 2
    /\ Len(results) = 1
    /\ Len(model_inputs) = 2

\* C13: the frames kept in the web session state belong to the topic kept
\* there: every record of the stored df_filtered passes the relevance filter
\* for session_state.topic, whatever searches came before.
C13_SessionResultsMatchTopic ==
    (frontend = "web" /\ session_state.df_results # NoValue) =>
        /\ session_state.df_filtered # NoValue
        /\ FilterByTopic(session_state.df_filtered[1], session_state.topic)
               = session_state.df_filtered[1]

-----------------------------------------------------------------------------
(* analyze_article_with_local_llm on long texts: SpecLlm *)

\* longest text handed to analyze_article_with_local_llm
MaxTextLen == 515
\* number of rotations of the alphabet the texts start from
MaxOffsets == 2

TextAlphabet == <<"a", "b", " ", "c", "d", "!", "e">>

\* a text of n characters, no two neighbours equal
LongText(n, off) ==
    [i \in 1..n |-> TextAlphabet[((i + off) % Len(TextAlphabet)) + 1]]

InitLlm ==
    /\ HighlightIdle
    /\ frontend = None
    /\ API_KEY = None
    /\ pc = "analyze_text"
    /\ topic = <<>>
    /\ requests = 0
    /\ data = NoValue
    /\ articles = <<>>
    /\ df = <<>>
    /\ df_filtered = <<>>
    /\ results = <<>>
    /\ model_inputs = <<>>
    /\ choice = 0
    /\ csv_file = NoValue
    /\ sqlite_db = NoValue
    /\ error = None
    /\ session_state = EmptySession
    /\ \E n \in 0..MaxTextLen : \E off \in 1..MaxOffsets : text = LongText(n, off)
    /\ cleaned = <<>>
    /\ verdict = NoValue
    /\ verdictUpper = NoValue

\* one call analyze_article_with_local_llm(text): results holds the dict
\* returned, error the exception of the model if it raised
AnalyzeText ==
    /\ pc = "analyze_text"
    /\ \E outcome \in ClassifierOutcomes :
           /\ model_inputs' = <<Truncate(text)>>
           /\ IF outcome.raises
              THEN error' = "RuntimeError" /\ UNCHANGED results
              ELSE /\ results' = <<analyze_article_with_local_llm(outcome)>>
                   /\ UNCHANGED error
    /\ pc' = "analysed"
    /\ UNCHANGED <<frontend, API_KEY, topic, requests, data, articles, df,
                   df_filtered, choice, csv_file, sqlite_db, session_state>>
    /\ UNCHANGED textVars
    /\ UNCHANGED hlVars

SpecLlm == InitLlm /\ [][AnalyzeText]_vars

\* C14: the model receives exactly the first 512 characters of the text: a
\* longer text is cut to its first 512 characters, a text of at most 512
\* characters is passed unchanged, and the only failure is the model's own.
C14_ModelGetsFirst512 ==
    pc = "analysed" =>
        /\ Len(model_inputs) = 1
        /\ Len(model_inputs[1]) = IF Len(text) > 512 THEN 512 ELSE Len(text)
        /\ \A i \in 1..Len(model_inputs[1]) : model_inputs[1][i] = text[i]
        /\ (error = None) = (results # <<>>)
        /\ error \in {None, "RuntimeError"}

\* a text of 513 characters was analysed and a result returned
C14_Witness ==
    /\ pc = "analysed"
    /\ Len(text) = 513
    /\ Len(model_inputs[1]) = 512
    /\ error = None
    /\ results # <<>>

-----------------------------------------------------------------------------
(* Further properties of the front ends, checked under Spec *)

\* t occurs in s as a literal substring, letter case ignored
OccursIgnoringCase(t, s) == In(lower(t), lower(s))

\* the records of rows that hold t literally in their title or text
LiteralMatches(rows, t) ==
    SelectSeq(rows, LAMBDA row : \/ OccursIgnoringCase(t, row.title)
                                 \/ OccursIgnoringCase(t, row.text))

\* C15: the relevance filter keeps a record if and only if the topic occurs
\* literally (case-insensitively) in its title or its normalized text, for
\* every topic, regular-expression metacharacters included.
C15_FilterIsLiteralSubstring ==
    /\ (frontend = "terminal" /\ pc # "filter") =>
           df_filtered = LiteralMatches(df, topic)
    /\ (frontend = "web" /\ requests = 1 /\ session_state.df_filtered # NoValue) =>
           LiteralMatches(session_state.df_filtered[1], session_state.topic)
               = session_state.df_filtered[1]

NotClickbaitNoSpace == <<"N", "o", "t", "C", "l", "i", "c", "k", "b", "a", "i", "t">>
shocking == <<"s", "h", "o", "c", "k", "i", "n", "g">>

\* C16: every record's Combined Label is "{Clickbait} + {Sentiment}" of the
\* same record; a title containing "shocking" with Positive sentiment gives
\* "Clickbait + Positive", and a title without lexicon word with Negative
\* sentiment gives "NotClickbait + Negative".
C16_CombinedLabel ==
    \A r \in EmittedRows :
        /\ r.CombinedLabel = r.Clickbait \o Plus \o r.Sentiment
        /\ (In(shocking, lower(r.Title)) /\ r.Sentiment = Positive) =>
               r.CombinedLabel = Clickbait \o Plus \o Positive
        /\ (FoundWords(lower(r.Title)) = <<>> /\ r.Sentiment = Negative) =>
               r.CombinedLabel = NotClickbaitNoSpace \o Plus \o Negative

\* the number of maximal runs of non-whitespace characters of s
NonSpaceRuns(s) ==
    Cardinality({n \in 1..Len(s) :
                    /\ ~IsSpace(s[n])
                    /\ n = 1 \/ IsSpace(s[n - 1])})

\* row k of rows carries the run count of the text of record k of recs
WordCountsMatch(rows, recs) ==
    \A k \in 1..Len(rows) :
        k <= Len(recs) => rows[k].WordCount = NonSpaceRuns(recs[k].text)

\* C17: a record's Word Count is the number of maximal non-whitespace runs
\* of that record's normalized text (not of its title), and the word count of
\* the empty string is 0.
C17_WordCountOfNormalizedText ==
    /\ frontend = "terminal" => WordCountsMatch(results, df_filtered)
    /\ session_state.df_results # NoValue =>
           WordCountsMatch(session_state.df_results[1],
                           RowsOf(session_state.df_filtered))
    /\ split_len(<<>>) = 0

\* a recorded article whose text has four words and whose title has two
C17_Witness ==
    \E k \in 1..Len(results) :
        /\ results[k].Title = df_filtered[k].title
        /\ results[k].WordCount = 4
        /\ NonSpaceRuns(results[k].Title) = 2

\* C18: a run of demo.py analyses all five sample articles and completes:
\* unless the sentiment model itself raises, it never enters the except
\* branch, and at completion results holds one row per sample article whose
\* Clickbait value is detect_clickbait_in_title of its title.
C18_DemoCompletes ==
    frontend = "demo" =>
        /\ error # "RuntimeError" => pc \notin {"demo_except", "demo_error"}
        /\ pc = "demo_completed" =>
               /\ Len(results) = 5
               /\ \A k \in 1..Len(results) :
                      /\ results[k].Title = create_sample_data[k].title
                      /\ results[k].Clickbait =
                             detect_clickbait_in_title(results[k].Title)

-----------------------------------------------------------------------------
(* main.py: highlight_keyword, one loop iteration per step: SpecHighlight *)

\* longest text and longest keyword handed to highlight_keyword
MaxHlText == 4
MaxKeyword == 2
\* length of highlighted_text beyond which the loop is not followed further
MaxHighlighted == 15

HlAlphabet == {"a", "A", "b"}
HlTexts == UNION {[1..n -> HlAlphabet] : n \in 0..MaxHlText}
Keywords == UNION {[1..n -> HlAlphabet] : n \in 0..MaxKeyword}

\* colorama's Fore.RED and the default base_color Fore.WHITE
Fore_RED == "ESC[31m"
base_color == "ESC[37m"

\* the Python slice s[a:b] for 0 <= a <= b
Slice(s, a, b) == SubSeq(s, a + 1, IF b > Len(s) THEN Len(s) ELSE b)

\* as Matched, inserting the keyword as it was typed
MatchedAsTyped(s, k, kw) == kw

\* text[i:i+len(keyword)], the characters put between the colour codes
Matched(s, k, kw) == Slice(s, k, k + Len(kw))

InitHighlight ==
    /\ text \in HlTexts
    /\ cleaned = <<>>
    /\ verdict = NoValue
    /\ verdictUpper = NoValue
    /\ frontend = None
    /\ API_KEY = None
    /\ pc = "hl_loop"
    /\ topic = <<>>
    /\ requests = 0
    /\ data = NoValue
    /\ articles = <<>>
    /\ df = <<>>
    /\ df_filtered = <<>>
    /\ results = <<>>
    /\ model_inputs = <<>>
    /\ choice = 0
    /\ csv_file = NoValue
    /\ sqlite_db = NoValue
    /\ error = None
    /\ session_state = EmptySession
    /\ keyword \in Keywords
    /\ scan_i = 0
    /\ highlighted_text = <<>>

\* one iteration of the while loop (lines 65-74)
HighlightStep ==
    /\ pc = "hl_loop"
    /\ scan_i < Len(text)
    /\ Len(highlighted_text) < MaxHighlighted
    /\ IF lower(Slice(text, scan_i, scan_i + Len(keyword))) = lower(keyword)
       THEN /\ highlighted_text' = highlighted_text \o <<Fore_RED>>
                                       \o Matched(text, scan_i, keyword)
                                       \o <<base_color>>
            /\ scan_i' = scan_i + Len(keyword)
       ELSE /\ highlighted_text' = Append(highlighted_text, text[scan_i + 1])
            /\ scan_i' = scan_i + 1
    /\ UNCHANGED <<text, cleaned, verdict, verdictUpper, keyword>>
    /\ UNCHANGED appVars

\* the loop condition fails: return highlighted_text (line 76)
HighlightReturn ==
    /\ pc = "hl_loop"
    /\ scan_i >= Len(text)
    /\ pc' = "hl_returned"
    /\ UNCHANGED <<frontend, API_KEY, topic, requests, data, articles, df,
                   df_filtered, results, model_inputs, choice, csv_file,
                   sqlite_db, error, session_state>>
    /\ UNCHANGED textVars
    /\ UNCHANGED hlVars

NextHighlight == HighlightStep \/ HighlightReturn

SpecHighlight == InitHighlight /\ [][NextHighlight]_vars

\* C19: highlight_keyword terminates for every text and keyword, the empty
\* keyword included: every loop iteration strictly increases the scan index.
C19_ScanIndexIncreases ==
    [][highlighted_text' # highlighted_text => scan_i' > scan_i]_vars

IsColourCode(c) == c \in {Fore_RED, base_color}

\* the result with the colour codes deleted
WithoutColourCodes(h) == SelectSeq(h, LAMBDA c : ~IsColourCode(c))

\* the text positions (from 0) at which a highlighted span of h starts
SpanStarts(h) ==
    {Len(WithoutColourCodes(SubSeq(h, 1, p))) :
         p \in {q \in 1..Len(h) : h[q] = Fore_RED}}

\* every Fore_RED of h is followed by n characters and then base_color
SpansWellFormed(h, n) ==
    \A p \in 1..Len(h) :
        /\ h[p] = Fore_RED =>
               /\ p + n + 1 <= Len(h)
               /\ \A j \in 1..n : ~IsColourCode(h[p + j])
               /\ h[p + n + 1] = base_color
        /\ h[p] = base_color => (p > n + 1 /\ h[p - n - 1] = Fore_RED)

\* kw occurs in s at position q (from 0), letter case ignored
OccursAt(s, q, kw) ==
    /\ q + Len(kw) <= Len(s)
    /\ \A j \in 1..Len(kw) : LowerChar(s[q + j]) = LowerChar(kw[j])

\* C20: for a non-empty keyword, deleting the colour codes from the result
\* gives back the text unchanged, and the highlighted spans are exactly the
\* case-insensitive occurrences of the keyword that do not overlap an earlier
\* highlighted span, scanning left to right.
C20_OnlyColourCodesInserted ==
    (pc = "hl_returned" /\ keyword # <<>>) =>
        /\ WithoutColourCodes(highlighted_text) = text
        /\ SpansWellFormed(highlighted_text, Len(keyword))
        /\ \A q \in 0..Len(text) :
               q \in SpanStarts(highlighted_text) <=>
                   /\ OccursAt(text, q, keyword)
                   /\ \A r \in SpanStarts(highlighted_text) :
                          r < q => r + Len(keyword) <= q

\* "aAab" scanned for "aa": "aA" is highlighted, the occurrence "Aa"
\* overlapping it is not
C20_Witness ==
    /\ pc = "hl_returned"
    /\ keyword = <<"a", "a">>
    /\ text = <<"a", "A", "a", "b">>
    /\ highlighted_text = <<Fore_RED, "a", "A", base_color, "a", "b">>

-----------------------------------------------------------------------------
(* Selection, session state and sinks of the front ends, checked under Spec *)

\* C21: the selection loop of main.py is left only with a choice in
\* 1..len(df_results); an iteration that stays in the loop changes nothing;
\* after the loop the result row and the filtered row at position choice-1
\* describe the same article.
C21_SelectionLoop ==
    /\ []((frontend = "terminal" /\ (choice # 0 \/ pc \in {"save_csv", "save_sql", "stats"})) =>
             /\ choice \in 1..Len(results)
             /\ choice <= Len(df_filtered)
             /\ results[choice].Title = df_filtered[choice].title
             /\ results[choice].Article = ToString(choice))
    /\ []((frontend = "terminal" /\ pc \in {"input_topic", "fetch", "clean", "filter",
                                             "analyze", "list", "select"}) =>
             choice = 0)
    /\ [][pc = "select" =>
             /\ pc' \in {"select", "save_csv"}
             /\ results' = results /\ df_filtered' = df_filtered
             /\ pc' = "select" => choice' = choice]_vars

\* the second of two analysed articles was chosen
C21_Witness ==
    /\ frontend = "terminal"
    /\ pc = "save_csv"
    /\ Len(results) = 2
    /\ choice = 2

C23_PersistedBeforeStatistics ==
    /\ []((frontend = "terminal" /\ pc = "stats") =>
             /\ csv_file = Some(results)
             /\ sqlite_db = Some(results))
    /\ [][(frontend = "terminal" /\ pc = "stats") =>
             /\ csv_file' = csv_file
             /\ sqlite_db' = sqlite_db
             /\ results' = results]_vars

\* the statistics failed on a single record, which both sinks hold
C23_Witness ==
    /\ frontend = "terminal"
    /\ pc = "crashed"
    /\ error = "ValueError"
    /\ Len(results) = 1
    /\ csv_file = Some(results)
    /\ sqlite_db = Some(results)

\* the run fetched a list, built the records without error and was left
\* with no record to analyse: the list was empty or no record matched
NothingToAnalyse ==
    /\ data = Some(TRUE)
    /\ error = None
    /\ df_filtered = <<>>
    /\ frontend \in {"terminal", "web"}
    /\ frontend = "terminal" => pc = "done"

\* C24: when the provider's list is empty or no record passes the filter,
\* the run stops before the analysis stage: the sentiment model gets no
\* text, no result row is built, main.py writes no file, and the web run
\* leaves the frames in session state and the CSV file as they were.
C24_NoAnalysisWithoutArticles ==
    /\ [](NothingToAnalyse =>
            /\ model_inputs = <<>>
            /\ results = <<>>
            /\ frontend = "terminal" => (csv_file = NoValue /\ sqlite_db = NoValue))
    /\ [][(requests' # requests /\ NothingToAnalyse') =>
            /\ session_state'.df_results = session_state.df_results
            /\ session_state'.df_filtered = session_state.df_filtered
            /\ csv_file' = csv_file
            /\ sqlite_db' = sqlite_db]_vars

\* main.py fetched articles and none of them matched the topic
C24_Witness ==
    /\ NothingToAnalyse
    /\ frontend = "terminal"
    /\ df # <<>>
    /\ requests = 1

====
